---- MODULE Spec2Model ----
(***************************************************************************)
(* StoNet_Causal (model/network.py): the stochastic network with a         *)
(* treatment layer, its pruning / MNAR masks, the feed-forward pass, the   *)
(* per-layer likelihood and the SGHMC backward-imputation sampler.         *)
(*                                                                         *)
(* Tensors are integer valued: a batch is a function from rows 0..Batch-1  *)
(* to rows, a row a function from columns 0..n-1 to Int.  The tensor       *)
(* library's real arithmetic is quantised to the integer grid: tanh        *)
(* saturates at -1 / +1, sigmoid and softmax round to 0 / 1, and alpha is  *)
(* counted in halves so that (1 - alpha) and sqrt(2 * alpha) stay exact.   *)
(***************************************************************************)
EXTENDS Integers, Sequences, FiniteSets, TLC

\* ------------------------------------------------------------- bounds
Batch == 2          \* rows of a batch
Width == 3          \* input_dim and every hidden_dim[i]
OutDim == 1         \* output_dim
MaxHidden == 3      \* largest num_hidden
MaxSteps == 2       \* largest mh_step

VARIABLES
    pc,              \* "new", "idle", "layer", "miss", "ret", "done", "raised", "ctor_error"
    num_hidden, treat_layer, treat_node, miss_col, obs_ind_node, miss_pattern,
    weight, bias,    \* parameters of module_list[k], k in 0..num_hidden
    prune_flag, mask_prune, mask_mnar,
    fwd,             \* result of the last forward(x, treat)
    args,            \* arguments of the running backward_imputation call
    x,               \* the caller's input tensor, updated in place
    hidden_list, momentum_list, forward_hidden, x_miss_momentum,
    step, layer_index,
    lik_calls,       \* the two likelihood_latent calls of the last layer update
    order,           \* updates done so far in the current sampler step
    step_start,      \* hidden_list as the current sampler step found it
    seen,            \* the neighbouring layers' values the last layer update read
    ref              \* reference trajectories run beside the sampler

cfgvars == <<num_hidden, treat_layer, treat_node, miss_col, obs_ind_node, miss_pattern>>
parvars == <<weight, bias, prune_flag, mask_prune, mask_mnar>>
bivars == <<args, x, hidden_list, momentum_list, forward_hidden, x_miss_momentum,
            step, layer_index, lik_calls, order, step_start, seen, ref>>
vars == <<pc, cfgvars, parvars, fwd, bivars>>

\* ------------------------------------------------------------- values
Idx(n) == 0..(n - 1)

\* A tensor is held as a table: TLC keeps a function expression unevaluated and
\* recomputes it at every application, and comparing it makes it a table once.
Tensor(f) == IF f = f THEN f ELSE f
Rows == Idx(Batch)

\* Python's None and a present value
None == [some |-> FALSE, val |-> <<>>]
Some(v) == [some |-> TRUE, val |-> v]

\* treat_node / obs_ind_node: an int, or a list of ints (isinstance(..., (list, tuple, np.ndarray)))
Single(c) == [list |-> FALSE, cols |-> <<c>>]
List(cs) == [list |-> TRUE, cols |-> cs]

RECURSIVE SumTo(_, _)
SumTo(f, n) == IF n = 0 THEN 0 ELSE f[n - 1] + SumTo(f, n - 1)

Max2(a, b) == IF a >= b THEN a ELSE b
RECURSIVE MaxOf(_, _)
MaxOf(s, n) == IF n = 1 THEN s[1] ELSE Max2(s[n], MaxOf(s, n - 1))

Zeros(n) == [c \in Idx(n) |-> 0]
ZeroBatch(n) == [r \in Rows |-> Zeros(n)]

\* ------------------------------------------------------------- tensor primitives
\* nn.Tanh, quantised: saturating at -1 and +1; its derivative is 1 off saturation
Tanh(v) == IF v > 1 THEN 1 ELSE IF v < -1 THEN -1 ELSE v
TanhD(v) == IF v > 1 \/ v < -1 THEN 0 ELSE 1

\* torch.sigmoid, quantised to {0, 1}
Sigmoid(v) == IF v > 0 THEN 1 ELSE 0

\* torch.softmax over a list of logits (a sequence), quantised: the largest logits get 1
Softmax(l) == Tensor([j \in 1..Len(l) |-> IF l[j] = MaxOf(l, Len(l)) THEN 1 ELSE 0])

\* log softmax, quantised: the logit less the largest logit
LogSoftmax(l) == Tensor([j \in 1..Len(l) |-> l[j] - MaxOf(l, Len(l))])

\* dimensions of module_list[k]: nn.Linear(in, out)
InDimOf(k) == Width
OutDimOf(k) == IF k = num_hidden THEN OutDim ELSE Width

\* nn.Linear(W, b) on one row u
Linear(W, b, u, nout, nin) ==
    Tensor([o \in Idx(nout) |-> SumTo([i \in Idx(nin) |-> W[o][i] * u[i]], nin) + b[o]])

\* module_list[k] on one row: Linear for k = 0, Sequential(Tanh, Linear) after it
ModuleRow(k, W, b, u) ==
    IF k = 0
    THEN Linear(W[0], b[0], u, OutDimOf(0), InDimOf(0))
    ELSE Linear(W[k], b[k], Tensor([i \in Idx(InDimOf(k)) |-> Tanh(u[i])]),
                OutDimOf(k), InDimOf(k))

\* module_list[k] on a batch
Module(k, W, b, h) == Tensor([r \in Rows |-> ModuleRow(k, W, b, h[r])])

\* t[:, node]: the columns of one row at node, as a sequence in node's order
Cols(row, node) == Tensor([j \in 1..Len(node.cols) |-> row[node.cols[j]]])

\* t[:, node] = v on a batch: column node.cols[j] takes v[r][j]
SetCols(h, node, v) ==
    Tensor([r \in Rows |->
        [c \in DOMAIN h[r] |->
            IF \E j \in 1..Len(node.cols) : node.cols[j] = c
            THEN v[r][CHOOSE j \in 1..Len(node.cols) : node.cols[j] = c]
            ELSE h[r][c]]])

\* ------------------------------------------------------------- construction
\* nn.Linear's initial parameters: every entry non-zero
InitWeight(nh) ==
    [k \in 0..nh |->
        [o \in Idx(IF k = nh THEN OutDim ELSE Width) |->
            [i \in Idx(Width) |-> IF (o + i + k) % 2 = 0 THEN 1 ELSE -1]]]
InitBias(nh) ==
    [k \in 0..nh |-> [o \in Idx(IF k = nh THEN OutDim ELSE Width) |-> IF k = 0 THEN o ELSE 0]]

\* torch.ones_like(weight); mask[:, obs_ind_node] = 0.  Indexing with None adds an
\* axis and selects everything, so the assignment zeroes the whole mask.
MnarMask(k, obs) ==
    [o \in Idx(OutDimOf(k)) |->
        [i \in Idx(InDimOf(k)) |->
            IF ~obs.some THEN 0
            ELSE IF \E j \in 1..Len(obs.val.cols) : obs.val.cols[j] = i THEN 0 ELSE 1]]

\* mnar_masked_para: weight.data *= mask_mnar on module_list[treat_layer + 2]
mnar_masked_para(W, mask) ==
    [W EXCEPT ![treat_layer + 2] =
        [o \in DOMAIN W[treat_layer + 2] |->
            [i \in DOMAIN W[treat_layer + 2][o] |-> W[treat_layer + 2][o][i] * mask[o][i]]]]

\* prune_masked_para: para.data[mask_prune[name]] = 0 for every named parameter
prune_masked_weight(W, mask) ==
    [k \in DOMAIN W |-> [o \in DOMAIN W[k] |-> [i \in DOMAIN W[k][o] |->
        IF mask.w[k][o][i] THEN 0 ELSE W[k][o][i]]]]
prune_masked_bias(b, mask) ==
    [k \in DOMAIN b |-> [o \in DOMAIN b[k] |-> IF mask.b[k][o] THEN 0 ELSE b[k][o]]]

\* ------------------------------------------------------------- inputs
MissCols == <<0, 1>>                 \* miss_col: the columns with missing values
ObsNodes == List(<<1, 2>>)           \* obs_ind_node: one node per missing column
Graph == <<<<0, 2>>, <<1, 2>>>>      \* graph[i]: miss_col[i], then what it is conditioned on

NumHiddenVals == 2..MaxHidden
TreatNodeVals == {Single(0), Single(1), List(<<0, 1>>), List(<<0, 2>>), List(<<2, 0>>)}
MissConfigs ==
    { [miss_pattern |-> "none", miss_col |-> None,           obs_ind_node |-> None],
      [miss_pattern |-> "none", miss_col |-> Some(MissCols), obs_ind_node |-> None],
      [miss_pattern |-> "mar",  miss_col |-> Some(MissCols), obs_ind_node |-> None],
      [miss_pattern |-> "mar",  miss_col |-> None,           obs_ind_node |-> None],
      [miss_pattern |-> "mnar", miss_col |-> Some(MissCols), obs_ind_node |-> Some(ObsNodes)],
      [miss_pattern |-> "mnar", miss_col |-> Some(MissCols), obs_ind_node |-> None],
      [miss_pattern |-> "mnar", miss_col |-> None,           obs_ind_node |-> Some(ObsNodes)] }

\* the constructor arguments explored: every missingness configuration with a single
\* treatment column and with a list of two, every treatment node without missingness
NoMissing == [miss_pattern |-> "none", miss_col |-> None, obs_ind_node |-> None]
Configs ==
    { [treat_node |-> t, m |-> m] : t \in {Single(1), List(<<0, 1>>)}, m \in MissConfigs }
    \cup { [treat_node |-> t, m |-> NoMissing] : t \in TreatNodeVals }

\* input batches x
XVals == { [r \in Rows |-> [c \in Idx(Width) |-> r + c - 1]],
           [r \in Rows |-> [c \in Idx(Width) |-> IF c = r THEN 2 ELSE -1]] }

\* realized treatments: one 0/1 label per row, or one one-hot row per treatment column list
TreatVals(node) ==
    { [r \in Rows |-> [j \in 1..Len(node.cols) |-> IF (r + j) % 2 = 1 THEN 1 ELSE 0]],
      [r \in Rows |-> [j \in 1..Len(node.cols) |-> IF j = 1 THEN 1 ELSE 0]] }

\* the batch and the treatment the sampler is run on
BIXVals == { [r \in Rows |-> [c \in Idx(Width) |-> r + c - 1]] }
BITreatVals(node) ==
    { [r \in Rows |-> [j \in 1..Len(node.cols) |-> IF (r + j) % 2 = 1 THEN 1 ELSE 0]] }

\* user_mask of set_prune: flags per weight and per bias entry
UserMasks(nh) ==
    { [w |-> [k \in 0..nh |-> [o \in Idx(IF k = nh THEN OutDim ELSE Width) |->
                [i \in Idx(Width) |-> (o + i) % 2 = 1]]],
       b |-> [k \in 0..nh |-> [o \in Idx(IF k = nh THEN OutDim ELSE Width) |-> o = 0]]] }

NoFwd == [called |-> FALSE]
NoCall == [called |-> FALSE]

\* ------------------------------------------------------------- Init
Init ==
    /\ pc = "new"
    /\ num_hidden \in NumHiddenVals
    /\ treat_layer \in 0..(num_hidden - 1)
    /\ \E c \in Configs :
          /\ treat_node = c.treat_node
          /\ miss_pattern = c.m.miss_pattern
          /\ miss_col = c.m.miss_col
          /\ obs_ind_node = c.m.obs_ind_node
    /\ weight = InitWeight(num_hidden)
    /\ bias = InitBias(num_hidden)
    /\ prune_flag = 0
    /\ mask_prune = None
    /\ mask_mnar = None
    /\ fwd = NoFwd
    /\ args = NoCall
    /\ x = ZeroBatch(Width)
    /\ hidden_list = <<>>
    /\ momentum_list = <<>>
    /\ forward_hidden = ZeroBatch(Width)
    /\ x_miss_momentum = <<>>
    /\ step = 0
    /\ layer_index = 0
    /\ lik_calls = <<>>
    /\ order = <<>>
    /\ step_start = <<>>
    /\ seen = <<>>
    /\ ref = <<>>

\* ------------------------------------------------------------- __init__
\* lines 57-61: the MNAR mask is built from module_list[treat_layer + 2] (an
\* IndexError when there is no such module) and applied at once
Construct ==
    /\ pc = "new"
    /\ IF miss_pattern = "mnar"
       THEN IF treat_layer + 2 > num_hidden
            THEN /\ pc' = "ctor_error"
                 /\ UNCHANGED <<weight, mask_mnar>>
            ELSE /\ mask_mnar' = Some(MnarMask(treat_layer + 2, obs_ind_node))
                 /\ weight' = mnar_masked_para(weight, mask_mnar'.val)
                 /\ pc' = "idle"
       ELSE /\ pc' = "idle"
            /\ UNCHANGED <<weight, mask_mnar>>
    /\ UNCHANGED <<cfgvars, bias, prune_flag, mask_prune, fwd, bivars>>

\* ------------------------------------------------------------- pruning switches
set_prune ==
    /\ pc = "idle"
    /\ \E user_mask \in UserMasks(num_hidden) :
          /\ mask_prune' = Some(user_mask)
          /\ prune_flag' = 1
    /\ UNCHANGED <<pc, cfgvars, weight, bias, mask_mnar, fwd, bivars>>

cancel_prune ==
    /\ pc = "idle"
    /\ prune_flag' = 0
    /\ mask_prune' = None
    /\ UNCHANGED <<pc, cfgvars, weight, bias, mask_mnar, fwd, bivars>>

\* ------------------------------------------------------------- forward
\* lines 86-89: softmax over a list of treatment columns, sigmoid of a single one
PropensityRow(logits) ==
    IF treat_node.list THEN Softmax(logits) ELSE [j \in 1..1 |-> Sigmoid(logits[1])]

\* the overwrite done before the logits are read: the score of the realized treatment
TreatStepOverwriteFirst(z, treat) ==
    LET z2 == SetCols(z, treat_node, treat)
    IN  [x |-> z2, ps |-> Tensor([r \in Rows |-> PropensityRow(Cols(z2[r], treat_node))])]

\* lines 85-90 on the output z of the treatment layer: the logits are cloned and
\* turned into the propensity score, then the columns take the realized treatment
TreatStep(z, treat) ==
    [x |-> SetCols(z, treat_node, treat),
     ps |-> Tensor([r \in Rows |-> PropensityRow(Cols(z[r], treat_node))])]

\* lines 82-90: the layers 0..k of the loop
RECURSIVE ForwardLoop(_, _, _, _, _)
ForwardLoop(k, xin, W, b, treat) ==
    LET before == IF k = 0 THEN [x |-> xin, ps |-> <<>>]
                  ELSE ForwardLoop(k - 1, xin, W, b, treat)
        z == Module(k, W, b, before.x)
    IN  IF k = treat_layer THEN TreatStep(z, treat) ELSE [x |-> z, ps |-> before.ps]

\* lines 76-80: the masks applied to the parameters before a forward pass
MaskedWeight ==
    LET W1 == IF prune_flag = 1 THEN prune_masked_weight(weight, mask_prune.val) ELSE weight
    IN  IF miss_pattern = "mnar" THEN mnar_masked_para(W1, mask_mnar.val) ELSE W1
MaskedBias == IF prune_flag = 1 THEN prune_masked_bias(bias, mask_prune.val) ELSE bias

forward ==
    /\ pc = "idle"
    /\ \E xin \in XVals, treat \in TreatVals(treat_node) :
          /\ weight' = MaskedWeight
          /\ bias' = MaskedBias
          /\ fwd' = [called |-> TRUE, x |-> xin, treat |-> treat,
                     acts |-> [k \in 0..num_hidden |->
                                  ForwardLoop(k, xin, weight', bias', treat).x],
                     out |-> ForwardLoop(num_hidden, xin, weight', bias', treat).x,
                     ps |-> ForwardLoop(num_hidden, xin, weight', bias', treat).ps]
    /\ UNCHANGED <<pc, cfgvars, prune_flag, mask_prune, mask_mnar, bivars>>

\* ------------------------------------------------------------- likelihood_latent
\* the branch of likelihood_latent taken for layer_index k (lines 145, 149, 173, 177-207)
Branch(k) ==
    IF k = 0 THEN "input"
    ELSE IF k = treat_layer THEN "treat"
    ELSE IF k = num_hidden THEN "outcome"
    ELSE IF miss_pattern = "mnar" /\ k = treat_layer + 1 THEN "obs"
    ELSE "plain"

\* lines 156-161 / 186-191: the first and last entry of a list, or the single node
Lower(node) == node.cols[1]
Upper(node) == node.cols[Len(node.cols)]

\* the second slice taken from upper instead of upper + 1
GaussCountFromUpper(c, node) ==
    (IF c < Lower(node) THEN 1 ELSE 0) + (IF c >= Upper(node) THEN 1 ELSE 0)

\* lines 163-169 / 193-199: how many of the two Gaussian slices [0:lower] and
\* [upper+1:] hold column c
GaussCount(c, node) ==
    (IF c < Lower(node) THEN 1 ELSE 0) + (IF c >= Upper(node) + 1 THEN 1 ELSE 0)

\* how many times the label loss reads column c (z[:, node])
LabelCount(c, node) == Cardinality({j \in 1..Len(node.cols) : node.cols[j] = c})

\* the columns of the terms of likelihood_latent(k): Gaussian and label multiplicities
Terms(k) ==
    LET b == Branch(k)
        node == IF b = "treat" THEN treat_node ELSE obs_ind_node.val
    IN  [index |-> k, branch |-> b,
         gauss |-> [c \in Idx(OutDimOf(k)) |->
                       IF b \in {"treat", "obs"} THEN GaussCount(c, node) ELSE 1],
         label |-> [c \in Idx(OutDimOf(k)) |->
                       IF b \in {"treat", "obs"} THEN LabelCount(c, node) ELSE 0]]

\* the label log-likelihood's gradient at the logits zs for the targets ts (sequences):
\* -BCEWithLogits for a single node and for the observed indicator, -CrossEntropy for a list
LabelGradZ(zs, ts, categorical) ==
    IF categorical
    THEN LET sm == Softmax(zs)
             total == SumTo([i \in Idx(Len(ts)) |-> ts[i + 1]], Len(ts))
         IN  Tensor([j \in 1..Len(zs) |-> ts[j] - sm[j] * total])
    ELSE Tensor([j \in 1..Len(zs) |-> ts[j] - Sigmoid(zs[j])])

\* ... and at the targets
LabelGradT(zs, ts, categorical) ==
    IF categorical THEN LogSoftmax(zs) ELSE Tensor([j \in 1..Len(zs) |-> zs[j]])

\* the position of column c in node, 0 when it is not there
PosIn(c, node) ==
    IF \E j \in 1..Len(node.cols) : node.cols[j] = c
    THEN CHOOSE j \in 1..Len(node.cols) : node.cols[j] = c
    ELSE 0

\* d likelihood_latent(k) / d z[o] on one row: z the transform's output, t what it
\* is compared with (hidden_list[k], or y at the outcome layer)
GradAtOutput(k, z, t, a) ==
    LET b == Branch(k)
        s == a.sigma_list[k]
    IN  IF b \in {"treat", "obs"}
        THEN LET node == IF b = "treat" THEN treat_node ELSE obs_ind_node.val
                 w == IF b = "treat" THEN a.treat_loss_weight ELSE a.obs_ind_loss_weight
                 lg == LabelGradZ(Cols(z, node), Cols(t, node), b = "treat" /\ node.list)
             IN  Tensor([o \in Idx(OutDimOf(k)) |->
                    GaussCount(o, node) * ((t[o] - z[o]) \div s)
                    + (IF PosIn(o, node) > 0 THEN w * lg[PosIn(o, node)] ELSE 0)])
        ELSE Tensor([o \in Idx(OutDimOf(k)) |-> (t[o] - z[o]) \div s])

\* d likelihood_latent(k) / d hidden_list[k][c] on one row, k < num_hidden
GradAtTarget(k, z, t, a) ==
    LET b == Branch(k)
        s == a.sigma_list[k]
    IN  IF b \in {"treat", "obs"}
        THEN LET node == IF b = "treat" THEN treat_node ELSE obs_ind_node.val
                 w == IF b = "treat" THEN a.treat_loss_weight ELSE a.obs_ind_loss_weight
                 lg == LabelGradT(Cols(z, node), Cols(t, node), b = "treat" /\ node.list)
             IN  Tensor([c \in Idx(OutDimOf(k)) |->
                    GaussCount(c, node) * ((z[c] - t[c]) \div s)
                    + (IF PosIn(c, node) > 0 THEN w * lg[PosIn(c, node)] ELSE 0)])
        ELSE Tensor([c \in Idx(OutDimOf(k)) |-> (z[c] - t[c]) \div s])

\* hidden_list[L].grad after the two backward() calls of lines 240-246: the gradient
\* of likelihood_latent(L + 1) through module_list[L + 1], plus that of
\* likelihood_latent(L), whose prediction is forward_hidden for L = 0
HiddenGrad(L, hl, fh, a) ==
    Tensor([r \in Rows |->
        LET z1 == ModuleRow(L + 1, weight, bias, hl[L][r])
            t1 == IF L + 1 = num_hidden THEN a.y[r] ELSE hl[L + 1][r]
            g1 == GradAtOutput(L + 1, z1, t1, a)
            z2 == IF L = 0 THEN fh[r] ELSE ModuleRow(L, weight, bias, hl[L - 1][r])
            g2 == GradAtTarget(L, z2, hl[L][r], a)
        IN  [c \in Idx(Width) |->
                SumTo([o \in Idx(OutDimOf(L + 1)) |-> g1[o] * weight[L + 1][o][c]],
                      OutDimOf(L + 1)) * TanhD(hl[L][r][c])
                + g2[c]]])

\* ------------------------------------------------------------- SGHMC arithmetic
\* alpha is counted in halves: (1 - alpha) * m, and sqrt(2 * alpha), which is alpha
\* itself for alpha = 0 and alpha = 1/2
AlphaTimes(alpha, m) == (alpha * m) \div 2      \* the decay taken as alpha * m
OneMinusAlpha(alpha, m) == ((2 - alpha) * m) \div 2
Sqrt2Alpha(alpha) == alpha

\* lines 250-252 / 275-276: the momentum with decay, gradient step and noise
Momentum(alpha, m, lr, g, noise) == OneMinusAlpha(alpha, m) + lr * g + noise * Sqrt2Alpha(alpha)

\* lines 253-259: the columns whose momentum is zeroed at layer L
FixedCol(L, c) ==
    \/ L = treat_layer /\ PosIn(c, treat_node) > 0
    \/ miss_pattern = "mnar" /\ L = treat_layer + 1 /\ PosIn(c, obs_ind_node.val) > 0

\* ------------------------------------------------------------- backward_imputation
SeedVals == {0, 1}

\* the draw of normal_() number n of a call, per row and column: the generator is a
\* function of its seed and of the number of draws made
Noise(seed, n) == [r \in Rows |-> [c \in Idx(Width) |-> ((seed + n + r + 2 * c) % 3) - 1]]

\* the number of the draw made at layer L, and at the missing-value update, of a step
DrawAt(st, L) == st * (num_hidden + 1) + (num_hidden - 1 - L)
CondMeanVals == {0, 1}

\* miss_ind: per row, one 0/1 flag per missing column
MissInd == [r \in Rows |-> [j \in 1..Len(MissCols) |-> IF (r + j) % 2 = 1 THEN 1 ELSE 0]]

\* the graph / miss_ind arguments a caller passes
MissArgs ==
    IF miss_col.some
    THEN { [graph |-> Some(Graph), miss_ind |-> Some(MissInd)],
           [graph |-> None,        miss_ind |-> Some(MissInd)],
           [graph |-> Some(Graph), miss_ind |-> None] }
    ELSE IF miss_pattern = "mnar"
    THEN { [graph |-> None, miss_ind |-> Some(MissInd)],
           [graph |-> None, miss_ind |-> None] }
    ELSE { [graph |-> None, miss_ind |-> None] }

\* alpha, the generator's seed and the learning rate of a call
Dynamics ==
    { [alpha |-> 0, seed |-> 0, lr |-> 1], [alpha |-> 0, seed |-> 0, lr |-> 2],
      [alpha |-> 1, seed |-> 0, lr |-> 1], [alpha |-> 1, seed |-> 1, lr |-> 2] }

CallArgs ==
    { [called |-> TRUE, mh_step |-> n, impute_lrs |-> [k \in Idx(num_hidden) |-> d.lr],
       alpha |-> d.alpha, seed |-> d.seed, sigma_list |-> [k \in 0..num_hidden |-> 1],
       x0 |-> xin, treat |-> tr, y |-> [r \in Rows |-> [o \in Idx(OutDim) |-> r]],
       treat_loss_weight |-> 1, obs_ind_loss_weight |-> 1,
       graph |-> m.graph, miss_lr |-> d.lr, miss_ind |-> m.miss_ind] :
      n \in 0..MaxSteps, d \in Dynamics, xin \in BIXVals,
      tr \in BITreatVals(treat_node), m \in MissArgs }

\* the layers next to L that the two likelihood terms of lines 240-243 read
Neighbours(L, hl) ==
    [layer |-> L,
     up |-> IF L + 1 < num_hidden THEN hl[L + 1] ELSE <<>>,
     down |-> IF L > 0 THEN hl[L - 1] ELSE <<>>]

\* line 237: reversed(range(num_hidden))
FirstLayer == num_hidden - 1
NextLayer(L) == L - 1

\* the snapshot left as it was
StaleSnapshot(xn) == forward_hidden

\* line 281: the first transform applied again to the updated input
Snapshot(xn) == Module(0, weight, bias, xn)

\* lines 214-220: the deterministic pass that fills hidden_list[0..k]; the layer
\* overwritten with the treatment is one of the layers 1..num_hidden-1
RECURSIVE InitHidden(_, _, _)
InitHidden(k, xin, treat) ==
    IF k = 0
    THEN Module(0, weight, bias, xin)
    ELSE LET z == Module(k, weight, bias, InitHidden(k - 1, xin, treat))
         IN  IF k = treat_layer THEN SetCols(z, treat_node, treat) ELSE z

\* line 222: obs_ind = 1 - miss_ind
ObsInd(miss_ind) == [r \in Rows |-> [j \in 1..Len(miss_ind[r]) |-> 1 - miss_ind[r][j]]]

\* lines 221-223 raise: 1 - None, or an indicator that does not fit hidden[:, None]
BeginRaises(a) ==
    miss_pattern = "mnar" /\ (~a.miss_ind.some \/ ~obs_ind_node.some)

\* the reference trajectories start from the sampler's initial hidden_list
RefInit(hl) ==
    [vel |-> [k \in Idx(num_hidden) |-> ZeroBatch(Width)], hid |-> hl, gd |-> hl]

\* lines 213-232
BI_Begin ==
    /\ pc = "idle"
    /\ \E a \in CallArgs :
          /\ args' = a
          /\ x' = a.x0
          /\ IF BeginRaises(a)
             THEN /\ pc' = "raised"
                  /\ UNCHANGED <<hidden_list, momentum_list, forward_hidden,
                                 x_miss_momentum, step_start, ref>>
             ELSE LET h0 == [k \in Idx(num_hidden) |-> InitHidden(k, a.x0, a.treat)]
                      hl == IF miss_pattern = "mnar"
                            THEN [h0 EXCEPT ![treat_layer + 1] =
                                     SetCols(@, obs_ind_node.val, ObsInd(a.miss_ind.val))]
                            ELSE h0
                  IN  /\ hidden_list' = hl
                      /\ momentum_list' = [k \in Idx(num_hidden) |-> ZeroBatch(Width)]
                      /\ forward_hidden' = hl[0]
                      /\ x_miss_momentum' =
                            IF miss_col.some
                            THEN [r \in Rows |-> [j \in 1..Len(miss_col.val) |-> 0]]
                            ELSE <<>>
                      /\ ref' = RefInit(hl)
                      /\ step_start' = hl
                      /\ pc' = IF a.mh_step > 0 THEN "layer" ELSE "ret"
    /\ step' = 0
    /\ layer_index' = FirstLayer
    /\ lik_calls' = <<>>
    /\ order' = <<>>
    /\ seen' = <<>>
    /\ fwd' = NoFwd
    /\ UNCHANGED <<cfgvars, parvars>>

\* lines 249-261 on hidden_list[L] and its momentum for the gradient g
LayerUpdate(L, a, h, m, g, noise) ==
    LET lr == a.impute_lrs[L]
        m2 == Tensor([r \in Rows |-> [c \in Idx(Width) |->
                  IF FixedCol(L, c) THEN 0
                  ELSE Momentum(a.alpha, m[r][c], lr, g[r][c], noise[r][c])]])
    IN  [momentum |-> m2,
         hidden |-> [r \in Rows |-> [c \in Idx(Width) |-> h[r][c] + lr * m2[r][c]]]]

\* the references this sampler is compared with, run when alpha = 0: velocity += lr * gradient,
\* latent += lr * velocity; and plain gradient ascent, latent += lr * gradient
RefStep(L, a) ==
    LET lr == a.impute_lrs[L]
        gh == HiddenGrad(L, ref.hid, forward_hidden, a)
        gg == HiddenGrad(L, ref.gd, forward_hidden, a)
        v2 == Tensor([r \in Rows |-> [c \in Idx(Width) |->
                  IF FixedCol(L, c) THEN 0 ELSE ref.vel[L][r][c] + lr * gh[r][c]]])
    IN  [vel |-> [ref.vel EXCEPT ![L] = v2],
         hid |-> [ref.hid EXCEPT ![L] =
                    [r \in Rows |-> [c \in Idx(Width) |-> @[r][c] + lr * v2[r][c]]]],
         gd |-> [ref.gd EXCEPT ![L] =
                    [r \in Rows |-> [c \in Idx(Width) |->
                        IF FixedCol(L, c) THEN @[r][c] ELSE @[r][c] + lr * gg[r][c]]]]]

\* where the sampler goes when a sampler step has ended
EndOfStep ==
    /\ step' = step + 1
    /\ layer_index' = IF step + 1 < args.mh_step THEN FirstLayer ELSE layer_index
    /\ pc' = IF step + 1 < args.mh_step THEN "layer" ELSE "ret"

\* lines 237-261: one pass of the inner loop, for layer_index
BI_Layer ==
    /\ pc = "layer"
    /\ LET noise == Noise(args.seed, DrawAt(step, layer_index)) IN
          LET L == layer_index
              g == HiddenGrad(L, hidden_list, forward_hidden, args)
              u == LayerUpdate(L, args, hidden_list[L], momentum_list[L], g, noise)
          IN  /\ momentum_list' = [momentum_list EXCEPT ![L] = u.momentum]
              /\ hidden_list' = [hidden_list EXCEPT ![L] = u.hidden]
    /\ lik_calls' = <<Terms(layer_index + 1), Terms(layer_index)>>
    /\ order' = IF layer_index = FirstLayer THEN <<layer_index>>
                ELSE Append(order, layer_index)
    /\ step_start' = IF layer_index = FirstLayer THEN hidden_list ELSE step_start
    /\ seen' = Neighbours(layer_index, hidden_list)
    /\ ref' = IF args.alpha = 0 THEN RefStep(layer_index, args) ELSE ref
    /\ IF layer_index > 0
       THEN /\ layer_index' = NextLayer(layer_index)
            /\ UNCHANGED <<pc, step>>
       ELSE IF miss_col.some
            THEN /\ pc' = "miss"
                 /\ UNCHANGED <<layer_index, step>>
            ELSE EndOfStep
    /\ UNCHANGED <<cfgvars, parvars, fwd, args, x, forward_hidden, x_miss_momentum>>

\* x_impute.grad[:, miss_col] after the two backward() calls of lines 268-272.
\* likelihood_miss takes its conditional mean and variance from the batch covariance
\* and a linear solve, under no_grad: they enter as the drawn mean cm and variance 1.
MissGrad(xi, cm, a) ==
    Tensor([r \in Rows |->
        LET z == ModuleRow(0, weight, bias, xi[r])
            t == hidden_list[layer_index][r]
        IN  [j \in 1..Len(miss_col.val) |->
                (cm - xi[r][miss_col.val[j]])
                + (SumTo([o \in Idx(OutDimOf(0)) |->
                            (t[o] - z[o]) * weight[0][o][miss_col.val[j]]], OutDimOf(0))
                   \div a.sigma_list[0])]])

\* the update without the mask of line 277
MissUpdateUnmasked(xi, m, g, noise, a) ==
    LET m2 == Tensor([r \in Rows |-> [j \in 1..Len(miss_col.val) |->
                  Momentum(a.alpha, m[r][j], a.miss_lr, g[r][j], noise[r][j - 1])]])
    IN  [momentum |-> m2,
         x |-> [r \in Rows |-> [c \in Idx(Width) |->
                  IF PosIn(c, List(miss_col.val)) > 0
                  THEN xi[r][c] + a.miss_lr * m2[r][PosIn(c, List(miss_col.val))]
                  ELSE xi[r][c]]]]

\* lines 275-278: the momentum of the missing columns, masked by miss_ind, and x
MissUpdate(xi, m, g, noise, a) ==
    LET m2 == Tensor([r \in Rows |-> [j \in 1..Len(miss_col.val) |->
                  Momentum(a.alpha, m[r][j], a.miss_lr, g[r][j], noise[r][j - 1])
                  * a.miss_ind.val[r][j]]])
    IN  [momentum |-> m2,
         x |-> [r \in Rows |-> [c \in Idx(Width) |->
                  IF PosIn(c, List(miss_col.val)) > 0
                  THEN xi[r][c] + a.miss_lr * m2[r][PosIn(c, List(miss_col.val))]
                  ELSE xi[r][c]]]]

\* lines 263-281; graph[i] with graph None, and momentum * None, raise
BI_Miss ==
    /\ pc = "miss"
    /\ IF ~args.graph.some \/ ~args.miss_ind.some
       THEN /\ pc' = "raised"
            /\ UNCHANGED <<x, x_miss_momentum, forward_hidden, step, layer_index, order>>
       ELSE /\ \E cm \in CondMeanVals :
                  LET noise == Noise(args.seed, DrawAt(step, -1))
                      u == MissUpdate(x, x_miss_momentum, MissGrad(x, cm, args), noise, args)
                  IN  /\ x_miss_momentum' = u.momentum
                      /\ x' = u.x
                      /\ forward_hidden' = Snapshot(u.x)
            /\ order' = Append(order, -1)
            /\ EndOfStep
    /\ UNCHANGED <<cfgvars, parvars, fwd, args, hidden_list, momentum_list, lik_calls,
                   step_start, seen, ref>>

\* line 283
BI_Return ==
    /\ pc = "ret"
    /\ pc' = "done"
    /\ UNCHANGED <<cfgvars, parvars, fwd, bivars>>

Next ==
    \/ Construct
    \/ set_prune
    \/ cancel_prune
    \/ forward
    \/ BI_Begin
    \/ BI_Layer
    \/ BI_Miss
    \/ BI_Return

Spec == Init /\ [][Next]_vars

\* ------------------------------------------------------------- properties
\* the sampler has built its hidden_list (and evaluated the transform chain)
Sampling == pc \in {"layer", "miss", "ret", "done"}

IsTreatCol(c) == PosIn(c, treat_node) > 0

\* C1: the hidden-state list returned by backward_imputation has
\* hidden[treat_layer][:, treat_node] equal to the treatment the caller supplied,
\* for every treat_layer in 0..num_hidden-1 and every mh_step >= 0.
C1_TreatmentColumnsReturned ==
    pc = "done" =>
        \A r \in Rows : \A j \in 1..Len(treat_node.cols) :
            hidden_list[treat_layer][r][treat_node.cols[j]] = args.treat[r][j]

\* the entries of x that miss_ind flags as missing, in the columns of miss_col
Flagged(r, c) ==
    /\ miss_col.some
    /\ args.miss_ind.some
    /\ \E j \in 1..Len(miss_col.val) : miss_col.val[j] = c /\ args.miss_ind.val[r][j] = 1

\* C2: during and after a call to backward_imputation, every entry of x that is not
\* in a column of miss_col at a row flagged in miss_ind has the value it had on entry.
C2_OnlyFlaggedEntriesChange ==
    args.called =>
        \A r \in Rows : \A c \in Idx(Width) : Flagged(r, c) \/ x[r][c] = args.x0[r][c]

\* a two-step call has returned, a flagged entry has moved, and next to it stand a
\* non-flagged entry of a missing column and a column outside miss_col
C2_Witness ==
    /\ pc = "done"
    /\ args.mh_step >= 2
    /\ \E r \in Rows : \E c \in Idx(Width) : Flagged(r, c) /\ x[r][c] # args.x0[r][c]
    /\ \E r \in Rows : \E c \in Idx(Width) :
          ~Flagged(r, c) /\ PosIn(c, List(miss_col.val)) > 0
    /\ \E c \in Idx(Width) : PosIn(c, List(miss_col.val)) = 0

\* the network's own value of layer k for the input xin: the transforms with no overwrite
RECURSIVE OwnValue(_, _)
OwnValue(k, xin) ==
    Module(k, weight, bias, IF k = 0 THEN xin ELSE OwnValue(k - 1, xin))

\* C3: forward returns the propensity score of the network's own values at the
\* treatment columns of the treatment layer; the treatment layer is handed on with
\* the realized treatment in those columns and its own values in the others, and
\* every later layer is the transform of the layer handed on to it.
C3_PropensityFromOwnLogits ==
    fwd.called =>
        LET own == OwnValue(treat_layer, fwd.x) IN
        /\ \A r \in Rows : fwd.ps[r] = PropensityRow(Cols(own[r], treat_node))
        /\ \A r \in Rows : \A c \in Idx(Width) :
              fwd.acts[treat_layer][r][c] =
                 IF IsTreatCol(c) THEN fwd.treat[r][PosIn(c, treat_node)] ELSE own[r][c]
        /\ \A k \in (treat_layer + 1)..num_hidden :
              fwd.acts[k] = Module(k, weight, bias, fwd.acts[k - 1])
        /\ fwd.out = fwd.acts[num_hidden]

\* a forward pass whose realized treatment differs from the network's own value, and
\* whose propensity score is not the one the realized treatment would give
C3_Witness ==
    /\ fwd.called
    /\ \E r \in Rows : Cols(OwnValue(treat_layer, fwd.x)[r], treat_node) # fwd.treat[r]
    /\ \E r \in Rows : fwd.ps[r] # PropensityRow(fwd.treat[r])
    /\ treat_layer < num_hidden - 1

\* every parameter entry the pruning mask flags is zero
PruneMaskHolds ==
    /\ \A k \in DOMAIN weight : \A o \in DOMAIN weight[k] : \A i \in DOMAIN weight[k][o] :
          mask_prune.val.w[k][o][i] => weight[k][o][i] = 0
    /\ \A k \in DOMAIN bias : \A o \in DOMAIN bias[k] :
          mask_prune.val.b[k][o] => bias[k][o] = 0

\* the weights from the observed-indicator columns into module_list[treat_layer + 2] are zero
MnarMaskHolds ==
    \A o \in DOMAIN weight[treat_layer + 2] : \A i \in DOMAIN weight[treat_layer + 2][o] :
        mask_mnar.val[o][i] = 0 => weight[treat_layer + 2][o][i] = 0

\* C4: every evaluation of the transform chain made while pruning is active, by
\* forward or inside backward_imputation, sees the mask-flagged parameters at zero,
\* and in 'mnar' mode sees the observed-indicator weight block at zero.
C4_MasksAppliedBeforeEvaluation ==
    (Sampling \/ fwd.called) =>
        /\ prune_flag = 1 => PruneMaskHolds
        /\ miss_pattern = "mnar" => MnarMaskHolds

\* C5: with miss_pattern = 'mnar' and obs_ind_node left None, construction fails:
\* no network object exists.
C5_MnarWithoutObsIndFails ==
    (miss_pattern = "mnar" /\ ~obs_ind_node.some) => pc \in {"new", "ctor_error"}

\* the call breaks the contract between miss_pattern and miss_col / graph
ContractViolation ==
    \/ miss_pattern \in {"mar", "mnar"} /\ (~miss_col.some \/ ~args.graph.some)
    \/ miss_pattern = "none" /\ (miss_col.some \/ args.graph.some)

\* C6: a call to backward_imputation that breaks the contract between miss_pattern
\* and miss_col / graph never returns normally.
C6_ContractViolationsRaise ==
    pc = "done" => ~ContractViolation

\* C7 as stated: with alpha = 0 the hidden states follow plain gradient ascent,
\* latent += lr * gradient, layer by layer in the sampler's order.
C7_PlainGradientAscent ==
    (Sampling /\ args.alpha = 0) => hidden_list = ref.gd

\* C7 as amended: with alpha = 0 the sampler adds no noise and keeps its whole momentum:
\* the hidden states and momenta follow velocity += lr * gradient (fixed columns
\* held at zero), latent += lr * velocity, layer by layer in the sampler's order.
C7_UndampedMomentumAscent ==
    (Sampling /\ args.alpha = 0) => (hidden_list = ref.hid /\ momentum_list = ref.vel)

\* a two-step call with alpha = 0 has returned, its hidden states have moved and
\* are not those of plain gradient ascent
C7_Witness ==
    /\ pc = "done"
    /\ args.alpha = 0
    /\ args.mh_step >= 2
    /\ hidden_list # step_start
    /\ hidden_list # ref.gd
    /\ hidden_list = ref.hid

\* C8: likelihood_latent called with layer_index = treat_layer takes the composite
\* treatment-layer branch, for every treat_layer in 0..num_hidden-1.
C8_TreatLayerIsComposite ==
    \A n \in DOMAIN lik_calls :
        lik_calls[n].index = treat_layer => lik_calls[n].branch = "treat"

\* the Gaussian terms of a call hold every non-treatment column once and no
\* treatment column, and the label loss holds every treatment column once
ExactSplit(call) ==
    \A c \in DOMAIN call.gauss :
        /\ call.gauss[c] = (IF IsTreatCol(c) THEN 0 ELSE 1)
        /\ call.label[c] = (IF IsTreatCol(c) THEN 1 ELSE 0)

\* C9 as stated: in the treatment-layer likelihood the Gaussian terms cover exactly
\* the non-treatment columns, each once, for a single column and for any set of columns.
C9_GaussianCoversComplement ==
    \A n \in DOMAIN lik_calls : lik_calls[n].branch = "treat" => ExactSplit(lik_calls[n])

\* treat_node is one column, or a list of consecutive columns in increasing order
Consecutive(node) ==
    \A j \in 1..(Len(node.cols) - 1) : node.cols[j + 1] = node.cols[j] + 1

\* C9 as amended: the same, for treat_node a single column or a list of consecutive
\* column indices in increasing order.
C9_GaussianCoversComplementOfBlock ==
    \A n \in DOMAIN lik_calls :
        (lik_calls[n].branch = "treat" /\ Consecutive(treat_node))
            => ExactSplit(lik_calls[n])

\* the treatment-layer likelihood has been evaluated for a list of consecutive
\* columns, with a Gaussian column beside the block
C9_Witness ==
    \E n \in DOMAIN lik_calls :
        /\ lik_calls[n].branch = "treat"
        /\ treat_node.list
        /\ Consecutive(treat_node)
        /\ \E c \in DOMAIN lik_calls[n].gauss : lik_calls[n].gauss[c] = 1

\* C10: within a sampler step the layers are updated in the order num_hidden-1, ..., 0
\* and the missing-covariate update comes last; the update of layer i reads layer
\* i+1 as updated in this step and layer i-1 as the step found it; and the snapshot
\* the layer-0 likelihood uses is the first transform of the current x.
C10_ReverseOrderThenMissing ==
    Sampling =>
        /\ Len(order) <= num_hidden + 1
        /\ \A n \in DOMAIN order : order[n] = num_hidden - n
        /\ Len(order) = num_hidden + 1 => miss_col.some
        /\ forward_hidden = Module(0, weight, bias, x)
        /\ seen # <<>> =>
              /\ seen.layer > 0 => seen.down = step_start[seen.layer - 1]
              /\ seen.layer + 1 < num_hidden =>
                    /\ seen.up = hidden_list[seen.layer + 1]
                    /\ \E n \in DOMAIN order : order[n] = seen.layer + 1

\* the second step of a sampler with three layers and missing columns has ended: all
\* layers and x moved in it, and the snapshot followed x
C10_Witness ==
    /\ pc = "ret"
    /\ args.mh_step >= 2
    /\ num_hidden >= 3
    /\ Len(order) = num_hidden + 1
    /\ \A k \in Idx(num_hidden) : hidden_list[k] # step_start[k]
    /\ x # args.x0
    /\ forward_hidden # Module(0, weight, bias, args.x0)

====
